---- MODULE Spec2Model ----
(***************************************************************************)
(* Lending lifecycle and penalty engine of the library management system.  *)
(* State: reading cards, book copies, borrow slips, borrow slip details    *)
(* and the wall clock.  One action per service operation.                  *)
(*                                                                         *)
(* Time is counted in hours of Vietnam wall-clock time (UTC+7), the zone   *)
(* in which due dates are written (srv_borrow.py) and in which the         *)
(* infraction sweep reads them back (dependencies.py, tz_vn.localize).     *)
(* HistoryService compares the same stored values with datetime.utcnow().  *)
(***************************************************************************)
EXTENDS Integers, Sequences, FiniteSets, TLC

(* ------------------------------ bounds --------------------------------- *)
MaxSlips == 3
MaxDetails == 6
MaxTitles == 2
MaxAdvances == 2
PenaltySlips == 2
MaxLateDays == 32
ReturnSlips == 1
SweepSlips == 2
RestoreSlips == 2
LendingDetails == 3

(* ------------------------- program constants --------------------------- *)
HoursPerDay == 24
VnUtcOffset == 7
LoanDaysStandard == 45
LoanDaysVip == 60
InfractionDays == 5
BlockDays == 30
BlockInfractions == 3
MaxBooksStandard == 5
MaxBooksVip == 8
LatePerDay == 5000
SurchargeDays == 30
DamageMin == 50000
DamageMax == 500000
DefaultBookPrice == 100000

(* ------------------------------ catalog -------------------------------- *)
Readers == {"r1", "r2"}
Books == {"b1", "b2", "b3"}
Titles == {"t1", "t2"}
SlipIds == 1..MaxSlips
DetailIds == 1..MaxDetails

CardTypeOf == [r \in Readers |-> IF r = "r2" THEN "VIP" ELSE "Standard"]
BookTitleOf == [b \in Books |-> IF b = "b3" THEN "t2" ELSE "t1"]
CategoryOf == [t \in Titles |-> IF t = "t2" THEN "Rare" ELSE "Novel"]

\* the clock moves on by 15 days, or by 60 days and 2 hours
AdvanceSteps == {15 * HoursPerDay, 60 * HoursPerDay + 2}

NoSlip == [reader |-> "none", status |-> "none"]
\* return_date=None
NoDate == -1
NoDetail == [borrow_slip_id |-> 0, book_id |-> "none", status |-> "none", return_date |-> NoDate]
\* no approval of the slip has read the database
NoRead == <<>>

\* BookTitle.price of the titles
PriceOf == [t \in Titles |-> IF t = "t1" THEN 80000 ELSE 120000]

\* the kinds of penalty slips, and a detail without any
Kinds == {"Late", "Damage", "Lost"}
NoPenalties == [k \in Kinds |-> <<>>]

\* custom_fine = None
NoFine == -1

\* the requests of process_return that may be under way at once, and one that is not
ReturnSessions == {1, 2}
Idle ==
    [d |-> 0, condition |-> "none", custom_fine |-> NoFine, late_fee |-> 0, pc |-> "idle",
     holds_detail |-> FALSE, holds_reader |-> FALSE, total_borrowed |-> 0,
     all_returned |-> FALSE, card_unsuspended |-> FALSE]

\* the runs of the sweep that may be under way at once, and the session of a run
\* that has loaded no row
SweepSessions == {1, 2}
NoRows == <<>>

\* charged[d] counts the infractions added on account of detail d; approving holds
\* the approvals that have read the database and not yet written; sweeping holds,
\* for each run of the sweep under way, the detail rows its session has loaded
VARIABLES now, advances, card_status, infraction_count, total_borrowed,
          being_borrowed, slips, details, charged, n_slips, n_details, approving,
          penalties, returning, sweeping

vars == <<now, advances, card_status, infraction_count, total_borrowed,
          being_borrowed, slips, details, charged, n_slips, n_details, approving,
          penalties, returning, sweeping>>

(* ------------------------------ helpers -------------------------------- *)
DateOf(t) == t \div HoursPerDay
UtcNow == now - VnUtcOffset

SlipExists(s) == slips[s] # NoSlip
DetailExists(d) == details[d] # NoDetail
DetailsOfSlip(dt, s) == {d \in DetailIds : dt[d] # NoDetail /\ dt[d].borrow_slip_id = s}
ReaderOfDetail(dt, d) == slips[dt[d].borrow_slip_id].reader
DetailsOfReader(dt, r) == {d \in DetailIds : dt[d] # NoDetail /\ ReaderOfDetail(dt, d) = r}

\* ids are fresh uuids, never handed out twice: the next one is the next number
FreeSlipIds == {s \in SlipIds : s > n_slips}
FreeDetailIds == {d \in DetailIds : d > n_details}

Init ==
    /\ now = 8
    /\ advances = 0
    /\ card_status = [r \in Readers |-> "Active"]
    /\ infraction_count = [r \in Readers |-> 0]
    /\ total_borrowed = [r \in Readers |-> 0]
    /\ being_borrowed = [b \in Books |-> FALSE]
    /\ slips = [s \in SlipIds |-> NoSlip]
    /\ details = [d \in DetailIds |-> NoDetail]
    /\ charged = [d \in DetailIds |-> 0]
    /\ n_slips = 0
    /\ n_details = 0
    /\ approving = [s \in SlipIds |-> NoRead]
    /\ penalties = [d \in DetailIds |-> NoPenalties]
    /\ returning = [p \in ReturnSessions |-> Idle]
    /\ sweeping = [p \in SweepSessions |-> NoRows]

(* ------------------------- DBSessionMiddleware ------------------------- *)
\* a session that is committed even though the request raised
OnRaiseCommitted(db, sess) == sess

\* a session whose slip rows are written at once and stay when the handler raises
OnRaiseKeepsSlip(db, sess) == [db EXCEPT !.sl = sess.sl]

\* the middleware is installed without commit_on_exit: when the handler raises,
\* the session is closed uncommitted and the database holds the rows as they were
OnRaise(db, sess) == db

(* ---------------- HistoryService.get_currently_borrowed_books ---------- *)
\* max_books: the limit the listing reports next to the books of the reader
MaxBooks(r) == IF CardTypeOf[r] = "VIP" THEN MaxBooksVip ELSE MaxBooksStandard

\* rows with status Active / Overdue / PendingReturn of one reader
CurrentlyBorrowed(dt, r) ==
    {d \in DetailsOfReader(dt, r) : dt[d].status \in {"Active", "Overdue", "PendingReturn"}}

\* is_overdue of one row: due date set and datetime.utcnow() > due date
IsOverdueRow(dt, d) == dt[d].return_date # NoDate /\ UtcNow > dt[d].return_date

\* HistoryService.get_overdue_books(...)["total_overdue"]
TotalOverdue(dt, r) == Cardinality({d \in CurrentlyBorrowed(dt, r) : IsOverdueRow(dt, d)})

(* ------------------- BorrowService.create_borrow_request --------------- *)
\* the query without the filter on the copies selected so far
CandidatesIgnoringSelected(t, selected) ==
    {b \in Books : BookTitleOf[b] = t /\ ~being_borrowed[b]}

\* Book.book_title_id == title_id, being_borrowed == False, not already selected
Candidates(t, selected) ==
    {b \in Books : BookTitleOf[b] = t /\ ~being_borrowed[b] /\ b \notin selected}

\* a check of the category that lets every card through
RareRefusedNever(r, b) == FALSE

\* a Rare title is restricted to VIP cards
RareRefused(r, b) == CardTypeOf[r] # "VIP" /\ CategoryOf[BookTitleOf[b]] = "Rare"

\* card checks that stop at Blocked
CardAllowsSubmissionUnlessBlocked(r) ==
    /\ ~(TotalOverdue(details, r) > 0 /\ card_status[r] = "Active")
    /\ card_status[r] # "Blocked"

\* the card checks of lines 76-111: no overdue book on an Active card, not Blocked,
\* not Suspended, Active
CardAllowsSubmission(r) ==
    /\ ~(TotalOverdue(details, r) > 0 /\ card_status[r] = "Active")
    /\ card_status[r] \notin {"Blocked", "Suspended"}
    /\ card_status[r] = "Active"

\* the primary key of a copy
BookId == [b \in Books |-> IF b = "b1" THEN 1 ELSE IF b = "b2" THEN 2 ELSE 3]

\* the picks when query.first() returns the row with the lowest book_id
RECURSIVE FirstPicks(_, _)
FirstPicks(titles, selected) ==
    IF titles = <<>> THEN <<>>
    ELSE LET c == Candidates(Head(titles), selected)
         IN IF c = {} THEN <<>>
            ELSE LET b == CHOOSE x \in c : \A y \in c : BookId[x] <= BookId[y]
                 IN <<b>> \o FirstPicks(Tail(titles), selected \cup {b})

TitleLists == UNION {[1..n -> Titles] : n \in 1..MaxTitles}

\* the AUTO-SUSPEND branch: commits Suspended, then raises 403
create_borrow_request_suspend(r) ==
    /\ TotalOverdue(details, r) > 0
    /\ card_status[r] = "Active"
    /\ card_status' = [card_status EXCEPT ![r] = "Suspended"]
    /\ UNCHANGED <<now, advances, infraction_count, total_borrowed, being_borrowed,
                   slips, details, charged, n_slips, n_details, approving, penalties, returning, sweeping>>

\* the selection loop of lines 127-170 in the session sess, from title i on: picks[i]
\* is the copy query.first() returns for titles[i]; no copy left raises 404, a Rare
\* title on a card that is not VIP raises 403
RECURSIVE CreateLoop(_, _, _, _, _)
CreateLoop(r, titles, picks, i, sess) ==
    IF i > Len(titles) THEN sess
    ELSE LET c == Candidates(titles[i], sess.selected)
         IN IF c = {} THEN [sess EXCEPT !.code = 404]
            ELSE IF picks[i] \notin c THEN [sess EXCEPT !.possible = FALSE]
            ELSE IF RareRefused(r, picks[i]) THEN [sess EXCEPT !.code = 403]
            ELSE CreateLoop(r, titles, picks, i + 1,
                     [sess EXCEPT !.dt[sess.nd + 1] =
                                      [borrow_slip_id |-> sess.ns, book_id |-> picks[i],
                                       status |-> "Pending", return_date |-> NoDate],
                                  !.nd = @ + 1,
                                  !.selected = @ \cup {picks[i]}])

\* the rows the database holds after the request, and the status code of the response
CreatePersisted(r, titles, picks) ==
    LET db == [sl |-> slips, dt |-> details, ns |-> n_slips, nd |-> n_details,
               selected |-> {}, code |-> 200, possible |-> TRUE]
        sess == IF ~CardAllowsSubmission(r) THEN [db EXCEPT !.code = 403]
                ELSE CreateLoop(r, titles, picks, 1,
                         [db EXCEPT !.sl[n_slips + 1] = [reader |-> r, status |-> "Pending"],
                                    !.ns = n_slips + 1])
        kept == IF sess.code # 200 THEN OnRaise(db, sess) ELSE sess
    IN [sl |-> kept.sl, dt |-> kept.dt, ns |-> kept.ns, nd |-> kept.nd,
        code |-> sess.code, possible |-> sess.possible]

\* room for one more slip and for the details of the list
HasRoom(titles) == FreeSlipIds # {} /\ Cardinality(FreeDetailIds) >= Len(titles)

create_borrow_request(r, titles, picks) ==
    /\ CardAllowsSubmission(r)
    /\ HasRoom(titles)
    /\ Len(picks) = Len(titles)
    /\ LET p == CreatePersisted(r, titles, picks)
       IN /\ p.possible
          /\ slips' = p.sl
          /\ details' = p.dt
          /\ n_slips' = p.ns
          /\ n_details' = p.nd
    /\ UNCHANGED <<now, advances, card_status, infraction_count, total_borrowed,
                   being_borrowed, charged, approving, penalties, returning, sweeping>>

\* orders in which the database may return the rows: by id, ascending or descending
RowOrders ==
    {[i \in 1..MaxDetails |-> i], [i \in 1..MaxDetails |-> MaxDetails + 1 - i]}

\* the same loan period for every card
LoanDaysAlwaysStandard(r) == LoanDaysStandard

(* ------------------- BorrowService.approve_borrow_request -------------- *)
LoanDays(r) == IF CardTypeOf[r] = "VIP" THEN LoanDaysVip ELSE LoanDaysStandard

\* the loop over the slip's details: some copy already flagged -> 409
ApproveConflict(s, bb) == \E d \in DetailsOfSlip(details, s) : bb[details[d].book_id]

\* the writes of a successful approval; tb is the total_borrowed the request read
ApproveWrite(s, tb) ==
    LET ds == DetailsOfSlip(details, s)
        r == slips[s].reader
    IN /\ slips' = [slips EXCEPT ![s].status = "Active"]
       /\ being_borrowed' = [b \in Books |->
              IF \E d \in ds : details[d].book_id = b THEN TRUE ELSE being_borrowed[b]]
       /\ details' = [d \in DetailIds |->
              IF d \in ds
              THEN [details[d] EXCEPT !.status = "Active",
                                      !.return_date = now + LoanDays(r) * HoursPerDay]
              ELSE details[d]]
       /\ total_borrowed' = [total_borrowed EXCEPT ![r] = tb + Cardinality(ds)]

\* the response of an approval that does not look at the card
approve_borrow_request_code_any_card(s) ==
    IF ~SlipExists(s) THEN 404
    ELSE IF slips[s].status # "Pending" THEN 400
    ELSE IF ApproveConflict(s, being_borrowed) THEN 409
    ELSE 200

\* the status code of the response, by the order of the checks
approve_borrow_request_code(s) ==
    IF ~SlipExists(s) THEN 404
    ELSE IF slips[s].status # "Pending" THEN 400
    ELSE IF card_status[slips[s].reader] \in {"Blocked", "Suspended"} THEN 403
    ELSE IF ApproveConflict(s, being_borrowed) THEN 409
    ELSE 200

\* the card checks of approval: slip set Rejected and committed, then 403
approve_borrow_request_refuse(s) ==
    /\ approve_borrow_request_code(s) = 403
    /\ slips' = [slips EXCEPT ![s].status = "Rejected"]
    /\ UNCHANGED <<now, advances, card_status, infraction_count, total_borrowed,
                   being_borrowed, details, charged, n_slips, n_details, approving, penalties, returning, sweeping>>

\* the details of slip s in the order given by ord
RowsOfSlip(s, ord) == SelectSeq(ord, LAMBDA d : d \in DetailsOfSlip(details, s))

\* the loop of lines 247-260 in the session sess: a flagged copy raises, any other
\* is flagged and its detail made Active with its due date
RECURSIVE ApproveLoop(_, _, _)
ApproveLoop(rows, r, sess) ==
    IF rows = <<>> THEN sess
    ELSE LET d == Head(rows)
             b == sess.dt[d].book_id
         IN IF sess.bb[b] THEN [sess EXCEPT !.raised = TRUE]
            ELSE ApproveLoop(Tail(rows), r,
                     [sess EXCEPT !.bb[b] = TRUE,
                                  !.dt[d].return_date = now + LoanDays(r) * HoursPerDay,
                                  !.dt[d].status = "Active"])

\* the rows the database holds after a request that got past the card checks
ApprovePersisted(s, ord) ==
    LET r == slips[s].reader
        db == [sl |-> slips, bb |-> being_borrowed, dt |-> details,
               tb |-> total_borrowed, raised |-> FALSE]
        sess == ApproveLoop(RowsOfSlip(s, ord), r, [db EXCEPT !.sl[s].status = "Active"])
        done == [sess EXCEPT !.tb[r] = @ + Cardinality(DetailsOfSlip(details, s))]
        kept == IF sess.raised THEN OnRaise(db, sess) ELSE done
    IN [sl |-> kept.sl, bb |-> kept.bb, dt |-> kept.dt, tb |-> kept.tb]

approve_borrow_request(s) ==
    /\ approve_borrow_request_code(s) \in {200, 409}
    /\ approving[s] = NoRead
    /\ \E ord \in RowOrders :
          LET p == ApprovePersisted(s, ord)
          IN /\ slips' = p.sl
             /\ being_borrowed' = p.bb
             /\ details' = p.dt
             /\ total_borrowed' = p.tb
    /\ UNCHANGED <<now, advances, card_status, infraction_count, charged, n_slips, n_details, approving, penalties, returning, sweeping>>

\* the same request in two steps, for approvals that overlap: every read and check
\* (lines 183-256), then the writes and the commit (lines 238-269)
approve_read(s) ==
    /\ SlipExists(s)
    /\ slips[s].status = "Pending"
    /\ card_status[slips[s].reader] \notin {"Blocked", "Suspended"}
    /\ ~ApproveConflict(s, being_borrowed)
    /\ approving[s] = NoRead
    /\ approving' = [approving EXCEPT ![s] = <<total_borrowed[slips[s].reader]>>]
    /\ UNCHANGED <<now, advances, card_status, infraction_count, total_borrowed,
                   being_borrowed, slips, details, charged, n_slips, n_details, penalties, returning, sweeping>>

approve_commit(s) ==
    /\ approving[s] # NoRead
    /\ ApproveWrite(s, approving[s][1])
    /\ approving' = [approving EXCEPT ![s] = NoRead]
    /\ UNCHANGED <<now, advances, card_status, infraction_count, charged, n_slips, n_details, penalties, returning, sweeping>>

(* ------------------- BorrowService.reject_borrow_request --------------- *)
\* the status code of the response: 404 for an unknown slip, 400 for a slip that is
\* not Pending
reject_borrow_request_code(s) ==
    IF ~SlipExists(s) THEN 404
    ELSE IF slips[s].status # "Pending" THEN 400
    ELSE 200

reject_borrow_request(s) ==
    /\ reject_borrow_request_code(s) = 200
    /\ slips' = [slips EXCEPT ![s].status = "Rejected"]
    /\ details' = [d \in DetailIds |->
          IF d \in DetailsOfSlip(details, s)
          THEN [details[d] EXCEPT !.status = "Rejected"] ELSE details[d]]
    /\ being_borrowed' = [b \in Books |->
          IF \E d \in DetailsOfSlip(details, s) : details[d].book_id = b
          THEN FALSE ELSE being_borrowed[b]]
    /\ UNCHANGED <<now, advances, card_status, infraction_count, total_borrowed, charged, n_slips, n_details, approving, penalties, returning, sweeping>>

(* ------------------- BorrowService.cancel_borrow_request --------------- *)
\* an ownership test that every reader passes
BelongsToAnyone(s, r) == TRUE

\* BorrowSlip.reader_id == reader_id: the slip is the reader's own
BelongsTo(s, r) == slips[s].reader = r

\* some detail of the slip has a penalty slip, which references the detail through
\* a foreign key that cannot be null
HasPenalty(s) ==
    \E d \in DetailsOfSlip(details, s), k \in Kinds : penalties[d][k] # <<>>

\* the status code of the response: 404 for an unknown slip, 403 for the slip of
\* another reader, 500 when the delete breaks the foreign key of a penalty slip
cancel_borrow_request_code(s, r) ==
    IF ~SlipExists(s) THEN 404
    ELSE IF ~BelongsTo(s, r) THEN 403
    ELSE IF HasPenalty(s) THEN 500
    ELSE 200

cancel_borrow_request(s, r) ==
    /\ cancel_borrow_request_code(s, r) = 200
    /\ being_borrowed' = [b \in Books |->
          IF \E d \in DetailsOfSlip(details, s) : details[d].book_id = b
          THEN FALSE ELSE being_borrowed[b]]
    /\ details' = [d \in DetailIds |->
          IF d \in DetailsOfSlip(details, s) THEN NoDetail ELSE details[d]]
    /\ slips' = [slips EXCEPT ![s] = NoSlip]
    /\ UNCHANGED <<now, advances, card_status, infraction_count, total_borrowed, charged, n_slips, n_details, approving, penalties, returning, sweeping>>

(* ------------------------ ReturnService -------------------------------- *)
\* the status code of the response: 404 for an unknown detail and for the detail of
\* another reader, 400 for a detail that is not Active or Overdue
request_return_code(d, r) ==
    IF ~DetailExists(d) THEN 404
    ELSE IF ~BelongsTo(details[d].borrow_slip_id, r) THEN 404
    ELSE IF details[d].status \notin {"Active", "Overdue"} THEN 400
    ELSE 200

request_return(d, r) ==
    /\ request_return_code(d, r) = 200
    /\ details' = [details EXCEPT ![d].status = "PendingReturn"]
    /\ UNCHANGED <<now, advances, card_status, infraction_count, total_borrowed,
                   being_borrowed, slips, charged, n_slips, n_details, approving, penalties, returning, sweeping>>

\* a revert that forgets the item was already marked overdue
RevertedStatusAlwaysActive(d) == "Active"

\* a revert that takes every cancelled return for late
RevertedStatusAlwaysOverdue(d) == "Overdue"

\* revert to overdue when now > due date, else active
RevertedStatus(d) == IF now > details[d].return_date THEN "Overdue" ELSE "Active"

\* the status code of the response: 404 for an unknown detail, 403 for the detail
\* of another reader, 400 for a detail that is not PendingReturn
cancel_return_request_code(d, r) ==
    IF ~DetailExists(d) THEN 404
    ELSE IF ~BelongsTo(details[d].borrow_slip_id, r) THEN 403
    ELSE IF details[d].status # "PendingReturn" THEN 400
    ELSE 200

cancel_return_request(d, r) ==
    /\ cancel_return_request_code(d, r) = 200
    /\ details' = [details EXCEPT ![d].status = RevertedStatus(d)]
    /\ UNCHANGED <<now, advances, card_status, infraction_count, total_borrowed,
                   being_borrowed, slips, charged, n_slips, n_details, approving, penalties, returning, sweeping>>

(* --------------------- ReturnService.process_return -------------------- *)
Conditions == {"good", "damaged", "lost"}

\* custom_fine as the librarian may give it
CustomFines == {NoFine, 20000}

\* a close that never records a loss
ClosedStatusAlwaysReturned(condition) == "Returned"

ClosedStatus(condition) == IF condition = "lost" THEN "Lost" ELSE "Returned"

\* datetime.now() without a time zone: the clock of the application server, which
\* is taken to run on Vietnam time as the stored due dates do
ServerNow == now

\* the status code of the response; damage_description tells whether one was given
process_return_code(d, condition, damage_description) ==
    IF condition \notin Conditions THEN 400
    ELSE IF condition = "damaged" /\ ~damage_description THEN 400
    ELSE IF ~DetailExists(d) THEN 404
    ELSE IF details[d].status # "PendingReturn" THEN 400
    ELSE IF details[d].return_date = NoDate THEN 400
    ELSE 200

\* a late fee without the price of the book after SurchargeDays
ProcessLateFeeFlat(due, at, price) ==
    IF at > due THEN (DateOf(at) - DateOf(due)) * LatePerDay ELSE 0

\* late_fee of lines 183-200
ProcessLateFee(due, at, price) ==
    IF at > due
    THEN LET days_overdue == DateOf(at) - DateOf(due)
             base_fine == days_overdue * LatePerDay
         IN IF days_overdue > SurchargeDays /\ price # 0 THEN base_fine + price ELSE base_fine
    ELSE 0

\* PenaltyService.calculate_current_late_fine(due_date, return_date)["fine_amount"]
calculate_current_late_fine(due_date, return_date) ==
    IF return_date > due_date
    THEN (DateOf(return_date) - DateOf(due_date)) * LatePerDay
    ELSE 0

\* getattr(book, "price", 100000): the copies have no price column
BookPrice(b) == DefaultBookPrice

\* a condition fee that charges the damage minimum for a copy in good condition too
ConditionFeeAlsoForGood(b, condition, custom_fine) ==
    IF condition = "lost"
    THEN IF custom_fine # NoFine THEN custom_fine ELSE (BookPrice(b) * 15) \div 10
    ELSE IF custom_fine # NoFine THEN custom_fine ELSE DamageMin

\* condition_fee of lines 205-210
ConditionFee(b, condition, custom_fine) ==
    IF condition = "damaged"
    THEN IF custom_fine # NoFine THEN custom_fine ELSE DamageMin
    ELSE IF condition = "lost"
    THEN IF custom_fine # NoFine THEN custom_fine ELSE (BookPrice(b) * 15) \div 10
    ELSE 0

\* a creator that adds a slip whether or not the detail has one of the kind
create_penalty_unchecked(pen, d, kind, fine_amount) ==
    [pen EXCEPT ![d][kind] = Append(@, fine_amount)]

\* PenaltyService.create_damage_penalty and create_lost_penalty: a second slip of
\* the kind for the detail raises 400; the fine is kept in the description
create_penalty(pen, d, kind, fine_amount) ==
    IF pen[d][kind] # <<>> THEN pen
    ELSE [pen EXCEPT ![d][kind] = Append(@, fine_amount)]

\* the fine of a damage penalty is kept between damage_min and damage_max
DamageFine(fine_amount) ==
    IF fine_amount < DamageMin THEN DamageMin
    ELSE IF fine_amount > DamageMax THEN DamageMax ELSE fine_amount

\* lines 224-249: create_late_penalty has no parameter book_price, the call raises
\* TypeError, and the handler of the exception skips the penalties that follow
CreatePenalties(pen, d, condition, condition_fee, late_fee) ==
    IF late_fee > 0 THEN pen
    ELSE IF condition = "damaged" THEN create_penalty(pen, d, "Damage", DamageFine(condition_fee))
    ELSE IF condition = "lost" THEN create_penalty(pen, d, "Lost", condition_fee)
    ELSE pen

\* lines 251-291 on the rows db: the counter of the reader, the status of the slip,
\* AUTO-UNSUSPEND
FinishReturn(db, d) ==
    LET s == db.dt[d].borrow_slip_id
        r == db.sl[s].reader
        all_returned == \A e \in DetailsOfSlip(db.dt, s) : db.dt[e].status \in {"Returned", "Lost"}
    IN [db EXCEPT !.tb[r] = IF @ - 1 > 0 THEN @ - 1 ELSE 0,
                  !.sl[s].status = IF all_returned THEN "Returned" ELSE @,
                  !.cs[r] = IF @ = "Suspended" /\ TotalOverdue(db.dt, r) = 0 THEN "Active" ELSE @]

\* the rows process_return reads and writes
ReturnRows ==
    [dt |-> details, bb |-> being_borrowed, pen |-> penalties, tb |-> total_borrowed,
     sl |-> slips, cs |-> card_status]

\* lines 202-222 and 224-249 on the rows db
CloseDetail(db, d, condition, custom_fine, late_fee) ==
    LET b == db.dt[d].book_id
    IN [db EXCEPT !.dt[d].status = ClosedStatus(condition),
                  !.bb[b] = FALSE,
                  !.pen = CreatePenalties(@, d, condition,
                                          ConditionFee(b, condition, custom_fine), late_fee)]

\* the whole request, no other request under way
ProcessReturnPersisted(d, condition, custom_fine) ==
    LET late_fee == ProcessLateFee(details[d].return_date, ServerNow,
                                   PriceOf[BookTitleOf[details[d].book_id]])
    IN FinishReturn(CloseDetail(ReturnRows, d, condition, custom_fine, late_fee), d)

\* the rows take the values of db
WriteReturnRows(db) ==
    /\ details' = db.dt
    /\ being_borrowed' = db.bb
    /\ penalties' = db.pen
    /\ total_borrowed' = db.tb
    /\ slips' = db.sl
    /\ card_status' = db.cs

process_return(d, condition, custom_fine) ==
    /\ process_return_code(d, condition, TRUE) = 200
    /\ WriteReturnRows(ProcessReturnPersisted(d, condition, custom_fine))
    /\ UNCHANGED <<now, advances, infraction_count, charged, n_slips, n_details, approving,
                   returning, sweeping>>

\* the same request in three steps, for returns that overlap. First the reads and
\* checks of lines 128-200, on the committed rows
return_read(p, d, condition, custom_fine) ==
    /\ returning[p] = Idle
    /\ process_return_code(d, condition, TRUE) = 200
    /\ returning' = [returning EXCEPT ![p] =
          [Idle EXCEPT !.d = d, !.condition = condition, !.custom_fine = custom_fine,
                       !.late_fee = ProcessLateFee(details[d].return_date, ServerNow,
                                                   PriceOf[BookTitleOf[details[d].book_id]]),
                       !.pc = "read"]]
    /\ UNCHANGED <<now, advances, card_status, infraction_count, total_borrowed,
                   being_borrowed, slips, details, charged, n_slips, n_details, approving,
                   penalties, sweeping>>

\* the creator of lines 235-247 was called and has added its slip
CreatorCommits(p) ==
    CreatePenalties(penalties, returning[p].d, returning[p].condition,
                    ConditionFee(details[returning[p].d].book_id, returning[p].condition,
                                 returning[p].custom_fine),
                    returning[p].late_fee) # penalties

\* then lines 202-249. The first query of a creator flushes the UPDATE of the detail
\* and holds the lock on its row until the creator commits, so that the test for a
\* slip of the kind and the insert are one step, and the commit of the creator writes
\* the status of the detail and the flag of the copy with the slip. When no creator
\* commits, the changes stay in the session
return_penalty(p) ==
    /\ returning[p].pc = "read"
    /\ IF CreatorCommits(p)
       THEN LET db == CloseDetail(ReturnRows, returning[p].d, returning[p].condition,
                                  returning[p].custom_fine, returning[p].late_fee)
            IN /\ details' = db.dt
               /\ being_borrowed' = db.bb
               /\ penalties' = db.pen
               /\ returning' = [returning EXCEPT ![p].pc = "committed"]
       ELSE /\ returning' = [returning EXCEPT ![p].pc = "pending"]
            /\ UNCHANGED <<details, being_borrowed, penalties>>
    /\ UNCHANGED <<now, advances, card_status, infraction_count, total_borrowed,
                   slips, charged, n_slips, n_details, approving, sweeping>>

\* at last lines 251-291: what is left in the session is flushed, the counter, the
\* slip and the card are read, written and committed
return_finish(p) ==
    /\ returning[p].pc \in {"committed", "pending"}
    /\ LET d == returning[p].d
           db == IF returning[p].pc = "pending"
                 THEN [ReturnRows EXCEPT !.dt[d].status = ClosedStatus(returning[p].condition),
                                         !.bb[details[d].book_id] = FALSE]
                 ELSE ReturnRows
       IN WriteReturnRows(FinishReturn(db, d))
    /\ returning' = [returning EXCEPT ![p] = Idle]
    /\ UNCHANGED <<now, advances, infraction_count, charged, n_slips, n_details, approving, sweeping>>

\* Lines 251-291 again, statement by statement. The database is SQL Server: a row a
\* request has updated and not yet committed makes the UPDATE of another request
\* wait, and a SELECT sees what is committed when it runs together with the writes
\* of its own session.
\* request p waits for request q: q has flushed, without committing, a row p writes
WaitsFor(p, q) ==
    LET d == returning[p].d
        r == ReaderOfDetail(details, d)
    IN /\ q # p
       /\ returning[q].pc \in {"flushed", "decided"}
       /\ \/ returning[p].pc = "pending" /\ returning[q].holds_detail /\ returning[q].d = d
          \/ /\ total_borrowed[r] > 0
             /\ returning[q].holds_reader
             /\ ReaderOfDetail(details, returning[q].d) = r

\* a request has updated the row of reader r and not yet committed
ReaderRowHeld(r) ==
    \E q \in ReturnSessions :
        /\ returning[q].pc \in {"flushed", "decided"}
        /\ returning[q].holds_reader
        /\ ReaderOfDetail(details, returning[q].d) = r

\* lines 251-257: the query of the reader flushes the UPDATE of the detail and of the
\* copy when no creator has committed them; total_borrowed is read and lowered, and
\* the next query flushes the UPDATE of the reader when the value has changed
return_flush(p) ==
    /\ returning[p].pc \in {"committed", "pending"}
    /\ DetailExists(returning[p].d)
    /\ \A q \in ReturnSessions : ~WaitsFor(p, q)
    /\ LET r == ReaderOfDetail(details, returning[p].d)
       IN returning' = [returning EXCEPT
              ![p].pc = "flushed",
              ![p].holds_detail = (returning[p].pc = "pending"),
              ![p].holds_reader = (total_borrowed[r] > 0),
              ![p].total_borrowed = IF total_borrowed[r] - 1 > 0
                                    THEN total_borrowed[r] - 1 ELSE 0]
    /\ UNCHANGED <<now, advances, card_status, infraction_count, total_borrowed,
                   being_borrowed, slips, details, charged, n_slips, n_details, approving,
                   penalties, sweeping>>

\* the rows the session of request p sees: the committed ones and its own writes
RowsOfSession(p) ==
    LET d == returning[p].d
    IN IF returning[p].holds_detail
       THEN [ReturnRows EXCEPT !.dt[d].status = ClosedStatus(returning[p].condition),
                               !.bb[details[d].book_id] = FALSE]
       ELSE ReturnRows

\* lines 257-289: the details of the slip, the card and the overdue books are read
\* and all_returned and card_unsuspended decided
return_decide(p) ==
    /\ returning[p].pc = "flushed"
    /\ DetailExists(returning[p].d)
    /\ LET d == returning[p].d
           db == RowsOfSession(p)
           s == db.dt[d].borrow_slip_id
           r == db.sl[s].reader
           res == FinishReturn(db, d)
       IN returning' = [returning EXCEPT
              ![p].pc = "decided",
              ![p].all_returned = (res.sl[s].status # db.sl[s].status),
              ![p].card_unsuspended = (res.cs[r] # db.cs[r])]
    /\ UNCHANGED <<now, advances, card_status, infraction_count, total_borrowed,
                   being_borrowed, slips, details, charged, n_slips, n_details, approving,
                   penalties, sweeping>>

\* line 291: the commit writes the attributes the session has changed
return_commit(p) ==
    /\ returning[p].pc = "decided"
    /\ DetailExists(returning[p].d)
    /\ LET d == returning[p].d
           s == details[d].borrow_slip_id
           r == slips[s].reader
       IN /\ details' = IF returning[p].holds_detail
                        THEN [details EXCEPT ![d].status = ClosedStatus(returning[p].condition)]
                        ELSE details
          /\ being_borrowed' = IF returning[p].holds_detail
                               THEN [being_borrowed EXCEPT ![details[d].book_id] = FALSE]
                               ELSE being_borrowed
          /\ total_borrowed' = IF returning[p].holds_reader
                               THEN [total_borrowed EXCEPT ![r] = returning[p].total_borrowed]
                               ELSE total_borrowed
          /\ slips' = IF returning[p].all_returned
                      THEN [slips EXCEPT ![s].status = "Returned"] ELSE slips
          /\ card_status' = IF returning[p].card_unsuspended
                            THEN [card_status EXCEPT ![r] = "Active"] ELSE card_status
    /\ returning' = [returning EXCEPT ![p] = Idle]
    /\ UNCHANGED <<now, advances, infraction_count, charged, n_slips, n_details, approving,
                   penalties, sweeping>>

(* -------------- HistoryService.get_borrow_history (step 1) ------------- *)
get_borrow_history(r) ==
    /\ \E d \in DetailsOfReader(details, r) : details[d].status = "Active" /\ IsOverdueRow(details, d)
    /\ details' = [d \in DetailIds |->
          IF d \in DetailsOfReader(details, r) /\ details[d].status = "Active"
             /\ IsOverdueRow(details, d)
          THEN [details[d] EXCEPT !.status = "Overdue"] ELSE details[d]]
    /\ UNCHANGED <<now, advances, card_status, infraction_count, total_borrowed,
                   being_borrowed, slips, charged, n_slips, n_details, approving, penalties, returning, sweeping>>

(* ------------- LibrarianManagementService.remove_ban ------------------- *)
\* an unban that also wipes the record of infractions
remove_ban_resets(r) ==
    /\ card_status[r] \in {"Suspended", "Blocked"}
    /\ card_status' = [card_status EXCEPT ![r] = "Active"]
    /\ infraction_count' = [infraction_count EXCEPT ![r] = 0]
    /\ UNCHANGED <<now, advances, total_borrowed, being_borrowed,
                   slips, details, charged, n_slips, n_details, approving, penalties, returning, sweeping>>

remove_ban(r) ==
    /\ card_status[r] \in {"Suspended", "Blocked"}
    /\ card_status' = [card_status EXCEPT ![r] = "Active"]
    /\ UNCHANGED <<now, advances, infraction_count, total_borrowed, being_borrowed,
                   slips, details, charged, n_slips, n_details, approving, penalties, returning, sweeping>>

(* --------------- dependencies._process_reader_infractions -------------- *)
\* The sweep works on the triple (card status, infraction counter, details);
\* st is the record of the values it reads and writes.
DbState == [cs |-> card_status, ic |-> infraction_count, dt |-> details, ch |-> charged]

\* rows of the reader not in Returned / Lost / Rejected
Unreturned(dt, r) ==
    {d \in DetailsOfReader(dt, r) : dt[d].status \notin {"Returned", "Lost", "Rejected"}}

\* due_date and now > due_date
PastDue(dt, d) == dt[d].return_date # NoDate /\ now > dt[d].return_date

\* (now.date() - due_date.date()).days
DaysOverdue(dt, d) == DateOf(now) - DateOf(dt[d].return_date)

\* first pass: some unreturned row is >= 30 days late
FirstPassBlocks(dt, r) ==
    \E d \in Unreturned(dt, r) : PastDue(dt, d) /\ DaysOverdue(dt, d) >= BlockDays

\* Rule 2 without the test on the status
AddsInfractionAnyStatus(dt, d) == DaysOverdue(dt, d) > InfractionDays

\* Rule 2: more than 5 days late and still Active
AddsInfraction(dt, d) == DaysOverdue(dt, d) > InfractionDays /\ dt[d].status = "Active"

\* second pass over the rows in the order the query returned them; acc carries
\* the state written so far, card_blocked and has_overdue_books
RECURSIVE SecondPass(_, _, _)
SecondPass(rows, r, acc) ==
    IF rows = <<>> THEN acc
    ELSE
      LET d == Head(rows)
      IN IF ~PastDue(acc.dt, d) THEN SecondPass(Tail(rows), r, acc)
         ELSE IF ~AddsInfraction(acc.dt, d)
              THEN SecondPass(Tail(rows), r, [acc EXCEPT !.has_overdue = TRUE])
         ELSE
           LET a1 == [acc EXCEPT !.has_overdue = TRUE,
                                 !.dt[d].status = "Overdue",
                                 !.ic[r] = @ + 1,
                                 !.ch[d] = @ + 1]
           IN IF a1.ic[r] >= BlockInfractions
              THEN [a1 EXCEPT !.cs[r] = "Blocked", !.blocked = TRUE]
              ELSE SecondPass(Tail(rows), r, a1)

\* Rule 1 and the restore rule, applied after the second pass
FinalStatus(acc, r) ==
    IF acc.has_overdue /\ ~acc.blocked THEN "Suspended"
    ELSE IF ~acc.has_overdue /\ acc.cs[r] = "Suspended" THEN "Active"
    ELSE acc.cs[r]

\* the rows of reader r in the order given by ord (a sequence of detail ids)
RowsOf(dt, r, ord) == SelectSeq(ord, LAMBDA d : d \in Unreturned(dt, r))

\* the pass without the early return for a card that is already Blocked
ProcessReaderInfractionsNoBlockedReturn(st, r, ord) ==
    IF FirstPassBlocks(st.dt, r) THEN [st EXCEPT !.cs[r] = "Blocked"]
    ELSE
      LET acc == SecondPass(RowsOf(st.dt, r, ord), r,
                            [cs |-> st.cs, ic |-> st.ic, dt |-> st.dt, ch |-> st.ch,
                             blocked |-> FALSE, has_overdue |-> FALSE])
      IN [cs |-> [acc.cs EXCEPT ![r] = FinalStatus(acc, r)],
          ic |-> acc.ic, dt |-> acc.dt, ch |-> acc.ch]

ProcessReaderInfractions(st, r, ord) ==
    IF st.cs[r] = "Blocked" THEN st
    ELSE IF FirstPassBlocks(st.dt, r) THEN [st EXCEPT !.cs[r] = "Blocked"]
    ELSE
      LET acc == SecondPass(RowsOf(st.dt, r, ord), r,
                            [cs |-> st.cs, ic |-> st.ic, dt |-> st.dt, ch |-> st.ch,
                             blocked |-> FALSE, has_overdue |-> FALSE])
      IN [cs |-> [acc.cs EXCEPT ![r] = FinalStatus(acc, r)],
          ic |-> acc.ic, dt |-> acc.dt, ch |-> acc.ch]

(* --------------- dependencies.check_all_readers_infractions ------------ *)
\* readers owning at least one row not in Returned / Lost / Rejected
ReadersToCheck(dt) == {r \in Readers : Unreturned(dt, r) # {}}

RECURSIVE SweepReaders(_, _, _)
SweepReaders(st, rs, ord) ==
    IF rs = {} THEN st
    ELSE LET r == CHOOSE x \in rs : TRUE
         IN SweepReaders(ProcessReaderInfractions(st, r, ord), rs \ {r}, ord)

SweepResult(st, ord) == SweepReaders(st, ReadersToCheck(st.dt), ord)

check_all_readers_infractions(ord) ==
    /\ SweepResult(DbState, ord) # DbState
    /\ LET res == SweepResult(DbState, ord)
       IN /\ card_status' = res.cs
          /\ infraction_count' = res.ic
          /\ details' = res.dt
          /\ charged' = res.ch
    /\ UNCHANGED <<now, advances, total_borrowed, being_borrowed, slips, n_slips, n_details, approving, penalties, returning, sweeping>>

\* The same sweep in two steps, for runs that overlap. First the query of lines
\* 289-293: it loads the rows that are not Returned, Lost or Rejected into the
\* session of the run
sweep_list(p) ==
    /\ sweeping[p] = NoRows
    /\ ReadersToCheck(details) # {}
    /\ sweeping' = [sweeping EXCEPT ![p] = details]
    /\ UNCHANGED <<now, advances, card_status, infraction_count, total_borrowed,
                   being_borrowed, slips, details, charged, n_slips, n_details, approving,
                   penalties, returning>>

\* row d is in the identity map of a session that loaded the rows snap
Loaded(snap, d) ==
    snap[d] # NoDetail /\ snap[d].status \notin {"Returned", "Lost", "Rejected"}

\* what the query of lines 176-181 gives a session that loaded the rows snap, the
\* committed rows being dt: the query selects on the committed status, and a row the
\* session has loaded keeps the attributes it was loaded with
RowsSeen(dt, snap) ==
    [d \in DetailIds |->
        IF /\ dt[d] # NoDetail
           /\ dt[d].status \notin {"Returned", "Lost", "Rejected"}
           /\ Loaded(snap, d)
        THEN snap[d] ELSE dt[d]]

\* the commit of line 262: the UPDATE of each row the session changed, and the card
SweepCommit(st, seen, res) ==
    [cs |-> res.cs, ic |-> res.ic, ch |-> res.ch,
     dt |-> [d \in DetailIds |->
                IF res.dt[d] # seen.dt[d]
                THEN [st.dt[d] EXCEPT !.status = res.dt[d].status]
                ELSE st.dt[d]]]

\* the loop of lines 307-315 over the readers rs. The card is read when its reader
\* is processed; the rows are the loaded ones until a commit expires them
RECURSIVE SweepLoaded(_, _, _, _)
SweepLoaded(st, rs, ord, snap) ==
    IF rs = {} THEN st
    ELSE LET r == CHOOSE x \in rs : TRUE
             seen == [st EXCEPT !.dt = RowsSeen(st.dt, snap)]
             res == ProcessReaderInfractions(seen, r, ord)
         IN IF res = seen
            THEN SweepLoaded(st, rs \ {r}, ord, snap)
            ELSE SweepReaders(SweepCommit(st, seen, res), rs \ {r}, ord)

\* then lines 295-315, on the committed rows of the moment
sweep_process(p, ord) ==
    /\ sweeping[p] # NoRows
    /\ LET res == SweepLoaded(DbState, ReadersToCheck(sweeping[p]), ord, sweeping[p])
       IN /\ card_status' = res.cs
          /\ infraction_count' = res.ic
          /\ details' = res.dt
          /\ charged' = res.ch
    /\ sweeping' = [sweeping EXCEPT ![p] = NoRows]
    /\ UNCHANGED <<now, advances, total_borrowed, being_borrowed, slips, n_slips, n_details,
                   approving, penalties, returning>>

(* ------------------------------ clock ---------------------------------- *)
Advance(h) ==
    /\ advances < MaxAdvances
    /\ now' = now + h
    /\ advances' = advances + 1
    /\ UNCHANGED <<card_status, infraction_count, total_borrowed, being_borrowed, slips, details, charged, n_slips, n_details, approving, penalties, returning, sweeping>>

\* a submission of reader r for the titles, under the row order the specification allows
Submit(r, titles, lowest) ==
    \E picks \in [1..Len(titles) -> Books] :
        /\ lowest => picks = FirstPicks(titles, {})
        /\ create_borrow_request(r, titles, picks)

\* the lending operations on behalf of the readers in RS, who submit lists from TL,
\* at most cap submissions and dcap details in all
LendingOps(RS, TL, cap, dcap, lowest) ==
    \/ \E r \in RS, titles \in TL :
          n_slips < cap /\ n_details + Len(titles) <= dcap /\ Submit(r, titles, lowest)
    \/ \E s \in SlipIds : approve_borrow_request(s)
    \/ \E s \in SlipIds : reject_borrow_request(s)
    \/ \E s \in SlipIds, r \in RS : cancel_borrow_request(s, r)
    \/ \E d \in DetailIds, r \in RS : request_return(d, r)
    \/ \E d \in DetailIds, r \in RS : cancel_return_request(d, r)
    \/ \E d \in DetailIds, c \in Conditions : process_return(d, c, NoFine)

\* the operations that depend on the clock or on a card that is not Active
PenaltyOps(RS) ==
    \/ \E h \in AdvanceSteps : Advance(h)
    \/ \E r \in RS : create_borrow_request_suspend(r)
    \/ \E s \in SlipIds : approve_borrow_request_refuse(s)
    \/ \E r \in RS : get_borrow_history(r)
    \/ \E r \in RS : remove_ban(r)
    \/ \E ord \in RowOrders : check_all_readers_infractions(ord)

\* every operation, both readers
Next == LendingOps(Readers, TitleLists, MaxSlips, LendingDetails, FALSE) \/ PenaltyOps(Readers)
Spec == Init /\ [][Next]_vars

\* the lending operations of both readers, clock stopped
NextLending == LendingOps(Readers, TitleLists, MaxSlips, LendingDetails, FALSE)
SpecLending == Init /\ [][NextLending]_vars

\* every operation of one reader (the VIP card), who submits at most PenaltySlips times
PenaltyTitleLists == {<<"t1">>, <<"t1", "t1">>, <<"t2">>}
NextPenalty ==
    LendingOps({"r2"}, PenaltyTitleLists, PenaltySlips, LendingDetails, TRUE) \/ PenaltyOps({"r2"})
SpecPenalty == Init /\ [][NextPenalty]_vars

\* submissions and approvals of both readers, the approvals overlapping
NextConc ==
    \/ \E r \in Readers, titles \in TitleLists :
          n_slips < MaxSlips /\ n_details + Len(titles) <= LendingDetails /\ Submit(r, titles, FALSE)
    \/ \E s \in SlipIds : approve_read(s)
    \/ \E s \in SlipIds : approve_commit(s)
SpecConc == Init /\ [][NextConc]_vars

\* submissions of both readers up to MaxDetails details, approvals, and the clock
NextLoans ==
    \/ \E r \in Readers, titles \in TitleLists :
          n_slips < MaxSlips /\ n_details + Len(titles) <= MaxDetails /\ Submit(r, titles, TRUE)
    \/ \E s \in SlipIds : approve_borrow_request(s)
    \/ \E h \in AdvanceSteps : Advance(h)
SpecLoans == Init /\ [][NextLoans]_vars

\* loans of the VIP reader, who submits at most ReturnSlips times, and their returns,
\* the returns overlapping
NextReturns ==
    \/ \E titles \in PenaltyTitleLists :
          n_slips < ReturnSlips /\ n_details + Len(titles) <= LendingDetails
              /\ Submit("r2", titles, TRUE)
    \/ \E s \in SlipIds : approve_borrow_request(s)
    \/ \E d \in DetailIds : request_return(d, "r2")
    \/ \E p \in ReturnSessions, d \in DetailIds, c \in Conditions, f \in CustomFines :
          return_read(p, d, c, f)
    \/ \E p \in ReturnSessions : return_penalty(p)
    \/ \E p \in ReturnSessions : return_finish(p)
SpecReturns == Init /\ [][NextReturns]_vars

\* loans of the VIP reader, approvals that overlap, the clock, the suspension of the
\* card while no return is under way, and returns in good condition, statement by
\* statement, that overlap; the UPDATE of the reader by an approval waits for a
\* return that holds the row
RestoreTitleLists == {<<"t1", "t1">>, <<"t2">>}
NextRestore ==
    \/ \E titles \in RestoreTitleLists :
          n_slips < RestoreSlips /\ Submit("r2", titles, TRUE)
    \/ \E s \in SlipIds : approve_read(s)
    \/ \E s \in SlipIds : ~ReaderRowHeld(slips[s].reader) /\ approve_commit(s)
    \/ \E h \in AdvanceSteps : Advance(h)
    \/ (\A p \in ReturnSessions : returning[p] = Idle) /\ create_borrow_request_suspend("r2")
    \/ \E d \in DetailIds : request_return(d, "r2")
    \/ \E p \in ReturnSessions, d \in DetailIds : return_read(p, d, "good", NoFine)
    \/ \E p \in ReturnSessions : return_penalty(p)
    \/ \E p \in ReturnSessions : return_flush(p)
    \/ \E p \in ReturnSessions : return_decide(p)
    \/ \E p \in ReturnSessions : return_commit(p)
SpecRestore == Init /\ [][NextRestore]_vars

\* loans of both readers, the clock, and runs of the sweep that overlap
SweepTitleLists == {<<"t1">>}
NextSweeps ==
    \/ \E r \in Readers, titles \in SweepTitleLists :
          n_slips < SweepSlips /\ Submit(r, titles, TRUE)
    \/ \E s \in SlipIds : approve_borrow_request(s)
    \/ \E h \in AdvanceSteps : Advance(h)
    \/ \E p \in SweepSessions : sweep_list(p)
    \/ \E p \in SweepSessions, ord \in RowOrders : sweep_process(p, ord)
SpecSweeps == Init /\ [][NextSweeps]_vars

(* ============================ properties =============================== *)
\* the details that reference copy b with a status in sts
ItemsOn(b, sts) ==
    {d \in DetailIds : DetailExists(d) /\ details[d].book_id = b /\ details[d].status \in sts}

\* C1: in every reachable state each copy is referenced by at most one detail
\* whose status is Pending or Active
C1_OnePendingOrActivePerCopy ==
    \A b \in Books : Cardinality(ItemsOn(b, {"Pending", "Active"})) <= 1

\* C2: after any sequence of lending operations no copy is referenced by more than
\* one detail that is on loan (Active, Overdue or PendingReturn)
C2_OneLoanPerCopy ==
    \A b \in Books : Cardinality(ItemsOn(b, {"Active", "Overdue", "PendingReturn"})) <= 1

\* two slips with a detail on the same copy
ShareCopy(s1, s2) ==
    \E d1 \in DetailsOfSlip(details, s1), d2 \in DetailsOfSlip(details, s2) :
        details[d1].book_id = details[d2].book_id

\* C3: of two requests that reference the same copy at most one is ever approved,
\* in whatever order their approvals read and write
C3_AtMostOneApproval ==
    \A s1, s2 \in SlipIds :
        (s1 # s2 /\ SlipExists(s1) /\ SlipExists(s2) /\ ShareCopy(s1, s2))
            => ~(slips[s1].status = "Active" /\ slips[s2].status = "Active")

\* C4: a card that is Blocked stays Blocked in every step that is not remove_ban
C4_BlockedStaysBlocked ==
    [][\A r \in Readers :
          card_status[r] = "Blocked" => (card_status'[r] = "Blocked" \/ remove_ban(r))]_vars

\* some unreturned row of reader r is past its due date
HasPastDue(dt, r) == \E d \in Unreturned(dt, r) : PastDue(dt, d)

\* a Blocked card whose reader has had a return processed and still holds a late item
C4_Witness ==
    \E r \in Readers :
        /\ card_status[r] = "Blocked"
        /\ HasPastDue(details, r)
        /\ \E d \in DetailsOfReader(details, r) : details[d].status \in {"Returned", "Lost"}

\* C5: the infraction counter is incremented on account of one detail at most once
C5_ChargedAtMostOnce == \A d \in DetailIds : charged[d] <= 1

\* a detail that was charged and has since gone through request-return
C5_Witness ==
    \E d \in DetailIds :
        DetailExists(d) /\ charged[d] = 1 /\ details[d].status = "PendingReturn"

\* C6: a second sweep straight after a first one changes nothing
C6_SweepIdempotent ==
    \A o1, o2 \in RowOrders :
        SweepResult(SweepResult(DbState, o1), o2) = SweepResult(DbState, o1)

\* a state in which the first sweep adds an infraction
C6_Witness ==
    \E o \in RowOrders : SweepResult(DbState, o).ic # infraction_count

\* C7: a Suspended card whose reader has nothing overdue is Active after one sweep
C7_SuspendedRestoredBySweep ==
    \A r \in Readers, ord \in RowOrders :
        (card_status[r] = "Suspended" /\ ~HasPastDue(details, r))
            => SweepResult(DbState, ord).cs[r] = "Active"

\* C8: a sweep over a reader who is not Blocked and holds an Active item 30 or more
\* days late leaves the item Overdue, the counter one higher and the card Blocked
C8_ThirtyDaysOverdueAndBlocked ==
    \A r \in Readers, ord \in RowOrders, d \in DetailIds :
        (/\ card_status[r] # "Blocked"
         /\ d \in DetailsOfReader(details, r)
         /\ details[d].status = "Active"
         /\ PastDue(details, d)
         /\ DaysOverdue(details, d) >= BlockDays)
            => LET res == SweepResult(DbState, ord)
               IN /\ res.dt[d].status = "Overdue"
                  /\ res.ch[d] = charged[d] + 1
                  /\ res.cs[r] = "Blocked"

\* C9: a reader the sweep has processed, with three or more infractions and no item
\* 30 or more days late, has a Blocked card
C9_ThreeInfractionsBlocked ==
    \A r \in ReadersToCheck(details), ord \in RowOrders :
        LET res == SweepResult(DbState, ord)
        IN (res.ic[r] >= BlockInfractions /\ ~FirstPassBlocks(details, r))
               => res.cs[r] = "Blocked"

\* the sweep, or a submission of reader r, takes the step
Evaluates(r) ==
    \/ \E ord \in RowOrders : check_all_readers_infractions(ord)
    \/ create_borrow_request_suspend(r)
    \/ \E titles \in TitleLists : Submit(r, titles, FALSE)

\* C10: after the sweep or a submission evaluates a reader whose card is Active or
\* Suspended and who holds an unreturned item past due by fewer than 30 days, the
\* counter staying below 3, the card is Suspended
C10_OverdueSuspends ==
    [][\A r \in Readers :
          (/\ Evaluates(r)
           /\ card_status[r] \in {"Active", "Suspended"}
           /\ HasPastDue(details, r)
           /\ ~FirstPassBlocks(details, r)
           /\ infraction_count'[r] < BlockInfractions)
              => card_status'[r] = "Suspended"]_vars

\* C11: no step lowers or resets the infraction counter of a card, remove_ban included
C11_CounterNeverDecreases ==
    [][\A r \in Readers : infraction_count'[r] >= infraction_count[r]]_vars

\* a card unbanned after it was Blocked for three infractions, the counter kept
C11_Witness ==
    \E r \in Readers :
        card_status[r] = "Active" /\ infraction_count[r] >= BlockInfractions

\* C12: a step that approves a request leaves every detail of the slip Active, due
\* 45 days (Standard card) or 60 days (VIP card) after the time of the approval, and
\* the copy of each detail flagged as being borrowed
C12_ApprovalSetsLoans ==
    [][\A s \in SlipIds :
          (SlipExists(s) /\ slips[s].status = "Pending" /\ slips'[s].status = "Active")
              => \A d \in DetailsOfSlip(details, s) :
                    /\ details'[d].status = "Active"
                    /\ details'[d].return_date =
                          now + (IF CardTypeOf[slips[s].reader] = "VIP"
                                 THEN LoanDaysVip ELSE LoanDaysStandard) * HoursPerDay
                    /\ being_borrowed'[details'[d].book_id]]_vars

\* a Standard and a VIP loan, approved at different times
C12_Witness ==
    \E d1, d2 \in DetailIds :
        /\ DetailExists(d1) /\ DetailExists(d2)
        /\ CardTypeOf[ReaderOfDetail(details, d1)] = "Standard"
        /\ CardTypeOf[ReaderOfDetail(details, d2)] = "VIP"
        /\ details[d1].status = "Active" /\ details[d2].status = "Active"
        /\ details[d1].return_date >= LoanDaysStandard * HoursPerDay
        /\ details[d2].return_date > details[d1].return_date + 15 * HoursPerDay

\* C13: approving or rejecting a request that is not Pending, an approved request
\* among them, is answered with the status of a conflict (409); the handlers answer
\* 400 and write nothing
C13_NotPendingIsConflict ==
    \A s \in SlipIds :
        (SlipExists(s) /\ slips[s].status # "Pending")
            => /\ approve_borrow_request_code(s) = 409
               /\ reject_borrow_request_code(s) = 409

\* a Pending request of a reader whose card is Blocked or Suspended
RefusedCase(s) ==
    /\ SlipExists(s)
    /\ slips[s].status = "Pending"
    /\ card_status[slips[s].reader] \in {"Blocked", "Suspended"}

\* C14: the approval of a Pending request whose reader's card is Blocked or Suspended
\* is answered 403 and leaves the request Rejected; no step makes such a request
\* Active, and the refusal flags no copy and sets no due date
C14_RefusedApproval ==
    [][\A s \in SlipIds :
          RefusedCase(s)
              => /\ approve_borrow_request_code(s) = 403
                 /\ slips'[s].status # "Active"
                 /\ approve_borrow_request_refuse(s)
                       => /\ slips'[s].status = "Rejected"
                          /\ being_borrowed' = being_borrowed
                          /\ \A d \in DetailsOfSlip(details, s) :
                                /\ details'[d].return_date = NoDate
                                /\ details'[d].status # "Active"]_vars

\* a request Rejected by a refused approval: its details were left as submitted
C14_Witness ==
    \E s \in SlipIds :
        /\ SlipExists(s)
        /\ slips[s].status = "Rejected"
        /\ card_status[slips[s].reader] \in {"Blocked", "Suspended"}
        /\ \E d \in DetailsOfSlip(details, s) : details[d].status = "Pending"

\* the rows an approval reads and writes, as the database holds them
PersistedNow ==
    [sl |-> slips, bb |-> being_borrowed, dt |-> details, tb |-> total_borrowed]

\* slip s is Pending, its reader's card lets the approval through, and some detail
\* of it references a copy that is being borrowed
FailsPartway(s) ==
    /\ SlipExists(s)
    /\ slips[s].status = "Pending"
    /\ card_status[slips[s].reader] \notin {"Blocked", "Suspended"}
    /\ \E d \in DetailsOfSlip(details, s) : being_borrowed[details[d].book_id]

\* C15: an approval that stops at a detail whose copy is already being borrowed is
\* answered 409 and leaves the database as it was, in whatever order it visits the
\* details: the slip Pending, no detail Active or dated, no copy flagged, the count
\* of borrowed books unchanged
C15_FailedApprovalWritesNothing ==
    \A s \in SlipIds, ord \in RowOrders :
        FailsPartway(s)
            => /\ approve_borrow_request_code(s) = 409
               /\ ApprovePersisted(s, ord) = PersistedNow

\* a Pending slip of two details: the copy of the first is free, the copy of the
\* second is being borrowed under another slip
C15_Witness ==
    \E s \in SlipIds, d1, d2 \in DetailIds :
        /\ FailsPartway(s)
        /\ d1 < d2
        /\ {d1, d2} \subseteq DetailsOfSlip(details, s)
        /\ ~being_borrowed[details[d1].book_id]
        /\ being_borrowed[details[d2].book_id]

\* the submissions (reader, list of titles, copy returned by each query) that the
\* tables have room for
Submissions ==
    {x \in Readers \X TitleLists \X UNION {[1..n -> Books] : n \in 1..MaxTitles} :
        Len(x[3]) = Len(x[2]) /\ HasRoom(x[2])}

\* the slips and details as the database holds them
SubmittedNow == [sl |-> slips, dt |-> details, ns |-> n_slips, nd |-> n_details]

\* what CreatePersisted leaves in the database
Kept(p) == [sl |-> p.sl, dt |-> p.dt, ns |-> p.ns, nd |-> p.nd]

\* the copies the queries of a submission exclude before title i
ChosenBefore(picks, i) == {picks[j] : j \in 1..(i - 1)}

\* some title of the submission has no copy left when its turn comes, or the copy
\* found for it is of a Rare title and the card is not VIP
FailsAtSomeTitle(r, titles, picks) ==
    \E i \in 1..Len(titles) :
        /\ \A j \in 1..(i - 1) : picks[j] \in Candidates(titles[j], ChosenBefore(picks, j))
        /\ \/ Candidates(titles[i], ChosenBefore(picks, i)) = {}
           \/ /\ picks[i] \in Candidates(titles[i], ChosenBefore(picks, i))
              /\ CardTypeOf[r] # "VIP"
              /\ CategoryOf[titles[i]] = "Rare"

C17_DistinctAvailableCopies ==
    \A x \in Submissions :
        LET p == CreatePersisted(x[1], x[2], x[3])
            n == Len(x[2])
            copy(i) == p.dt[n_details + i].book_id
        IN (p.possible /\ p.code = 200)
               => /\ p.nd = n_details + n
                  /\ \A i \in 1..n :
                        /\ p.dt[n_details + i] # NoDetail
                        /\ p.dt[n_details + i].borrow_slip_id = p.ns
                        /\ BookTitleOf[copy(i)] = x[2][i]
                        /\ ~being_borrowed[copy(i)]
                  /\ \A i, j \in 1..n : i # j => copy(i) # copy(j)

\* a submission that asked twice for one title is on file
C17_Witness ==
    \E d1, d2 \in DetailIds :
        /\ d1 # d2
        /\ DetailExists(d1) /\ DetailExists(d2)
        /\ details[d1].borrow_slip_id = details[d2].borrow_slip_id
        /\ BookTitleOf[details[d1].book_id] = BookTitleOf[details[d2].book_id]
        /\ details[d1].book_id # details[d2].book_id

\* a copy of a Rare title
IsRare(b) == CategoryOf[BookTitleOf[b]] = "Rare"

C19_InactiveCardCannotSubmit ==
    [][\A r \in Readers :
          card_status[r] # "Active"
              => /\ \A x \in Submissions :
                       x[1] = r
                           => LET p == CreatePersisted(x[1], x[2], x[3])
                              IN p.code = 403 /\ Kept(p) = SubmittedNow
                 /\ \A s \in SlipIds :
                       (~SlipExists(s) /\ slips'[s] # NoSlip) => slips'[s].reader # r
                 /\ \A d \in DetailIds :
                       (~DetailExists(d) /\ details'[d] # NoDetail)
                           => slips'[details'[d].borrow_slip_id].reader # r]_vars

\* a card that is Suspended or Blocked while copies are free and the tables have
\* room for another request of its reader
C19_Witness ==
    \E x \in Submissions :
        /\ card_status[x[1]] \in {"Blocked", "Suspended"}
        /\ n_slips < PenaltySlips
        /\ \A i \in 1..Len(x[2]) : x[3][i] \in Candidates(x[2][i], ChosenBefore(x[3], i))

\* the details of a reader that are not closed: requested, on loan, or being returned
NonTerminal(r) ==
    {d \in DetailsOfReader(details, r) :
        details[d].status \in {"Pending", "Active", "Overdue", "PendingReturn"}}

\* C20: a reader never has more details that are not closed than the limit of the
\* card, 5 for Standard and 8 for VIP; create_borrow_request does not count them
C20_WithinBorrowLimit ==
    \A r \in Readers : Cardinality(NonTerminal(r)) <= MaxBooks(r)

\* C21: a slip is removed only while its status is Pending: no step removes a slip
\* that is Active, Returned or Rejected
C21_RemovedOnlyWhilePending ==
    [][\A s \in SlipIds :
          (SlipExists(s) /\ slips'[s] = NoSlip) => slips[s].status = "Pending"]_vars

\* C22: a reader's cancel_borrow_request, request_return and cancel_return_request on
\* a slip or detail of another reader are refused, and no step is such an operation
C22_OthersItemsUntouched ==
    [][\A r \in Readers :
          /\ \A s \in SlipIds :
                (SlipExists(s) /\ slips[s].reader # r)
                    => /\ cancel_borrow_request_code(s, r) \in {403, 404}
                       /\ ~cancel_borrow_request(s, r)
          /\ \A d \in DetailIds :
                (DetailExists(d) /\ ReaderOfDetail(details, d) # r)
                    => /\ request_return_code(d, r) \in {403, 404}
                       /\ cancel_return_request_code(d, r) \in {403, 404}
                       /\ ~request_return(d, r)
                       /\ ~cancel_return_request(d, r)]_vars

\* one reader has a Pending slip and a book on loan, the other a return under way
C22_Witness ==
    \E s \in SlipIds, d1, d2 \in DetailIds :
        /\ SlipExists(s) /\ DetailExists(d1) /\ DetailExists(d2)
        /\ slips[s].status = "Pending"
        /\ ReaderOfDetail(details, d1) = slips[s].reader
        /\ details[d1].status = "Active"
        /\ ReaderOfDetail(details, d2) # slips[s].reader
        /\ details[d2].status = "PendingReturn"

\* C23: cancel_return_request leaves a PendingReturn detail Overdue when the clock is
\* past its due date and Active otherwise, and touches no other detail; on a detail
\* that is not PendingReturn it is refused and no step is such a cancellation
C23_CancelReturnReverts ==
    [][\A d \in DetailIds, r \in Readers :
          /\ cancel_return_request(d, r)
                => /\ details[d].status = "PendingReturn"
                   /\ details'[d].status =
                         (IF now > details[d].return_date THEN "Overdue" ELSE "Active")
                   /\ \A e \in DetailIds \ {d} : details'[e] = details[e]
          /\ (DetailExists(d) /\ details[d].status # "PendingReturn")
                => /\ cancel_return_request_code(d, r) # 200
                   /\ ~cancel_return_request(d, r)]_vars

\* a return is under way on a detail whose due date has passed
C23_Witness ==
    \E d \in DetailIds :
        /\ DetailExists(d)
        /\ details[d].status = "PendingReturn"
        /\ now > details[d].return_date

\* C24: process_return leaves a PendingReturn detail Lost when the condition is lost
\* and Returned when it is good or damaged, and clears being_borrowed of the copy; on
\* a detail in any other status it is refused and no step is such a return
C24_ReturnClosesDetail ==
    [][\A d \in DetailIds, c \in Conditions :
          /\ process_return(d, c, NoFine)
                => /\ details[d].status = "PendingReturn"
                   /\ details'[d].status = (IF c = "lost" THEN "Lost" ELSE "Returned")
                   /\ ~being_borrowed'[details[d].book_id]
          /\ (DetailExists(d) /\ details[d].status # "PendingReturn")
                => /\ process_return_code(d, c, TRUE) = 400
                   /\ ~process_return(d, c, NoFine)]_vars

\* one detail was closed as Lost and another as Returned, their copies released
C24_Witness ==
    \E d1, d2 \in DetailIds :
        /\ DetailExists(d1) /\ DetailExists(d2)
        /\ details[d1].status = "Lost" /\ ~being_borrowed[details[d1].book_id]
        /\ details[d2].status = "Returned" /\ ~being_borrowed[details[d2].book_id]

\* the price of the title of the copy of detail d
ItemPrice(d) == PriceOf[BookTitleOf[details[d].book_id]]

\* C25: process_return with condition lost and no custom fine reports, and records in
\* the penalty slip, one and a half times the price of the item
C25_LostFeeIsPriceAndHalf ==
    \A d \in DetailIds :
        DetailExists(d)
            => /\ details[d].status = "PendingReturn"
                     => 2 * ConditionFee(details[d].book_id, "lost", NoFine) = 3 * ItemPrice(d)
               /\ \A i \in 1..Len(penalties[d]["Lost"]) :
                     2 * penalties[d]["Lost"][i] = 3 * ItemPrice(d)

\* C26: after process_return the detail has a penalty slip of every kind that
\* applies: Late when it came back a day or more after the due date, Damage when the
\* condition is damaged, Lost when it is lost
C26_PenaltyForEachKind ==
    [][\A d \in DetailIds, c \in Conditions :
          process_return(d, c, NoFine)
              => /\ DateOf(now) > DateOf(details[d].return_date)
                       => penalties'[d]["Late"] # <<>>
                 /\ c = "damaged" => penalties'[d]["Damage"] # <<>>
                 /\ c = "lost" => penalties'[d]["Lost"] # <<>>]_vars

\* the times at which a book due at due may come back: the hour before, the hour
\* itself, and up to MaxLateDays days later
ReturnTimes(due) ==
    {due - 1} \cup {due + k * HoursPerDay + h : k \in 0..MaxLateDays, h \in {0, 1}}

\* the days between the due date and the return, none when it is not late
DaysLate(due, at) == IF DateOf(at) > DateOf(due) THEN DateOf(at) - DateOf(due) ELSE 0

\* C27: the late fee of process_return is 0 for 0 days overdue, 5000 a day up to 30
\* days, and 5000 a day plus the price of the item beyond 30 days; it is 0 on the due
\* date and does not decrease when the book comes back a day later
C27_LateFee ==
    \A d \in DetailIds :
        (DetailExists(d) /\ details[d].return_date # NoDate)
            => LET due == details[d].return_date
                   fee(at) == ProcessLateFee(due, at, ItemPrice(d))
               IN /\ fee(due) = 0
                  /\ \A at \in ReturnTimes(due) :
                        LET n == DaysLate(due, at)
                        IN /\ fee(at) = IF n = 0 THEN 0
                                        ELSE IF n <= 30 THEN n * 5000
                                        ELSE n * 5000 + ItemPrice(d)
                           /\ fee(at) <= fee(at + HoursPerDay)

\* a return is under way on a detail that is more than 30 days overdue
C27_Witness ==
    \E d \in DetailIds :
        /\ DetailExists(d)
        /\ details[d].status = "PendingReturn"
        /\ DaysLate(details[d].return_date, ServerNow) > 30

\* C28: calculate_current_late_fine gives, for every due date, date of comparison and
\* price, the late fee process_return computes
C28_OneLateFee ==
    \A d \in DetailIds :
        (DetailExists(d) /\ details[d].return_date # NoDate)
            => \A at \in ReturnTimes(details[d].return_date) :
                  calculate_current_late_fine(details[d].return_date, at)
                      = ProcessLateFee(details[d].return_date, at, ItemPrice(d))

\* C29: a detail never has more than one penalty slip of a kind, in whatever order
\* the steps of overlapping returns are taken
C29_OnePenaltyPerKind ==
    \A d \in DetailIds, k \in Kinds : Len(penalties[d][k]) <= 1

\* two returns of one detail as damaged overlap: the creator of the first has
\* committed its slip, the creator of the second has found it and raised
C29_Witness ==
    \E p, q \in ReturnSessions :
        /\ returning[p].d # 0
        /\ returning[p].d = returning[q].d
        /\ returning[p].condition = "damaged" /\ returning[q].condition = "damaged"
        /\ returning[p].late_fee = 0 /\ returning[q].late_fee = 0
        /\ returning[p].pc = "committed"
        /\ returning[q].pc = "pending"

\* a step of a lending operation that answers with a failure after a commit: the
\* submission that suspends the card, the approval that rejects the request
FailureStep ==
    \/ \E r \in Readers : create_borrow_request_suspend(r)
    \/ \E s \in SlipIds : approve_borrow_request_refuse(s)

\* C30: a lending operation that answers with a failure leaves the database as it
\* was, the status of the card and of the request included: an approval answered 409
\* writes nothing, and no step that changes the database is the step of a failure
C30_FailuresWriteNothing ==
    [][/\ \A s \in SlipIds, ord \in RowOrders :
             approve_borrow_request_code(s) = 409 => ApprovePersisted(s, ord) = PersistedNow
       /\ ~FailureStep]_vars

\* a step that changes the status of detail d, the detail being there before and after
StatusChanges(d) ==
    /\ DetailExists(d)
    /\ details'[d] # NoDetail
    /\ details'[d].status # details[d].status

\* C31: the step that commits the closing of a detail (PendingReturn to Returned or
\* Lost, with the flag of the copy and the penalty slips) commits with it the
\* reader's counter, one lower, and the card, Active again when it was Suspended
\* and no overdue detail is left; no committed state has the first without the rest
C31_ReturnCommitsTogether ==
    [][\A d \in DetailIds :
          (/\ DetailExists(d)
           /\ details[d].status = "PendingReturn"
           /\ details'[d].status \in {"Returned", "Lost"})
              => LET r == ReaderOfDetail(details, d)
                 IN /\ ~being_borrowed'[details[d].book_id]
                    /\ total_borrowed'[r] = IF total_borrowed[r] > 0
                                             THEN total_borrowed[r] - 1 ELSE 0
                    /\ (card_status[r] = "Suspended" /\ TotalOverdue(details', r) = 0)
                          => card_status'[r] = "Active"]_vars

\* C32: whatever the interleaving of the returns, once no return is under way a
\* reader's card is not Suspended unless the reader still has a detail on loan that
\* is past its due date
C32_LastReturnsRestoreCard ==
    \A r \in Readers :
        (card_status[r] = "Suspended" /\ \A p \in ReturnSessions : returning[p] = Idle)
            => \E d \in CurrentlyBorrowed(details, r) : now > details[d].return_date

\* C33: for a reader whose card is Active, submitting a request, having it approved
\* and returning the copy in good condition by the due date each leave the card
\* status and the infraction counter as they were, and the return charges no fee and
\* records no penalty
C33_GoodReturnOnTimeIsFree ==
    [][\A r \in Readers :
          card_status[r] = "Active"
              => /\ (\E s \in SlipIds :
                        /\ ~SlipExists(s) /\ slips'[s].reader = r)
                    => card_status'[r] = "Active" /\ infraction_count'[r] = infraction_count[r]
                 /\ (\E s \in SlipIds :
                        /\ SlipExists(s) /\ slips[s].reader = r
                        /\ approve_borrow_request(s))
                    => card_status'[r] = "Active" /\ infraction_count'[r] = infraction_count[r]
                 /\ \A d \in DetailsOfReader(details, r) :
                        (process_return(d, "good", NoFine) /\ ServerNow <= details[d].return_date)
                            => /\ card_status'[r] = "Active"
                               /\ infraction_count'[r] = infraction_count[r]
                               /\ ProcessLateFee(details[d].return_date, ServerNow, ItemPrice(d)) = 0
                               /\ ConditionFee(details[d].book_id, "good", NoFine) = 0
                               /\ penalties'[d] = [k \in Kinds |-> <<>>]
                               /\ details'[d].status = "Returned"]_vars

\* a loan was returned by its due date with nothing charged: the reader's card is
\* Active, the counter is zero and the detail has no penalty slip
C33_Witness ==
    \E d \in DetailIds :
        /\ DetailExists(d)
        /\ details[d].status = "Returned"
        /\ now <= details[d].return_date
        /\ penalties[d] = [k \in Kinds |-> <<>>]
        /\ card_status[ReaderOfDetail(details, d)] = "Active"
        /\ infraction_count[ReaderOfDetail(details, d)] = 0

\* C34: a copy whose loan was closed as Lost is not given to a detail by any later
\* submission
C34_LostCopyStaysOut ==
    [][\A e \in DetailIds :
          (~DetailExists(e) /\ details'[e] # NoDetail)
              => ~\E d \in DetailIds :
                     /\ DetailExists(d)
                     /\ details[d].status = "Lost"
                     /\ details[d].book_id = details'[e].book_id]_vars

\* C35: no step changes the status of a detail that is Returned, Rejected or Lost
C35_TerminalStatusStays ==
    [][\A d \in DetailIds :
          (DetailExists(d) /\ details[d].status \in {"Returned", "Rejected", "Lost"})
              => ~StatusChanges(d)]_vars

\* C36: a detail goes from Active to Overdue only when it is more than 5 days past
\* its due date, and a step adds to the counter of each reader one infraction for
\* every detail of the reader that it takes from Active to Overdue
C36_OverdueMeansInfraction ==
    [][\A r \in Readers :
          LET moved == {d \in DetailsOfReader(details, r) :
                          details[d].status = "Active" /\ details'[d].status = "Overdue"}
          IN /\ \A d \in moved : DateOf(now) - DateOf(details[d].return_date) > 5
             /\ infraction_count'[r] = infraction_count[r] + Cardinality(moved)]_vars

\* the details of reader r that are Active and more than 5 days past due
DueForInfraction(r) ==
    {d \in DetailsOfReader(details, r) :
        details[d].status = "Active" /\ PastDue(details, d) /\ AddsInfraction(details, d)}

\* C37: with runs of the sweep overlapping, a step adds to a reader's counter no more
\* than one infraction for each detail of the reader that is Active and more than 5
\* days past due: such a detail adds one infraction, not two
C37_OverlappingSweepsChargeOnce ==
    [][\A r \in Readers :
          infraction_count'[r] - infraction_count[r] <= Cardinality(DueForInfraction(r))]_vars

\* C38: being_borrowed of a copy is true exactly when a detail that is Active,
\* Overdue or PendingReturn references the copy
C38_FlagMeansOnLoan ==
    \A b \in Books :
        being_borrowed[b] <=> ItemsOn(b, {"Active", "Overdue", "PendingReturn"}) # {}

\* C39: total_borrowed of a reader is the number of the reader's details that are
\* Active, Overdue or PendingReturn, and is not negative
C39_CounterMeansOnLoan ==
    \A r \in Readers :
        /\ total_borrowed[r] >= 0
        /\ total_borrowed[r] = Cardinality(CurrentlyBorrowed(details, r))

\* the details of slip s all have a status in sts
AllItems(s, sts) == \A d \in DetailsOfSlip(details, s) : details[d].status \in sts

\* C40: a Pending slip has only Pending details, a Rejected slip only Rejected
\* details, and a slip is Returned exactly when its details are all Returned or Lost
C40_SlipAgreesWithDetails ==
    \A s \in SlipIds :
        SlipExists(s)
            => /\ slips[s].status = "Pending" => AllItems(s, {"Pending"})
               /\ slips[s].status = "Rejected" => AllItems(s, {"Rejected"})
               /\ slips[s].status = "Returned" <=> AllItems(s, {"Returned", "Lost"})
====
